---- MODULE Spec2Model ----
(***************************************************************************)
(* H5OutputFile (src/src/hdf5_output.h): a write-only adapter that owns    *)
(* one HDF5 file handle and forwards create / close / dataset write /      *)
(* attribute write to the HDF5 library.                                    *)
(*                                                                         *)
(* Every member function is modelled as an operator that maps a process    *)
(* state record s to the process state after the function body.  The       *)
(* statements of a body are composed in source order; every statement is   *)
(* a no-op on a process that is no longer running (Dead), which is how     *)
(* abort() inside io_error cuts the rest of a body off.  Each action of    *)
(* the specification applies one whole member function.                    *)
(***************************************************************************)
EXTENDS Integers, Sequences, FiniteSets, TLC

\* ---------------------------------------------------------------- constants
CHUNK_SIZE == 8192
DEFLATE == 6

\* Identifiers of the HDF5 library the header uses.  hid_t values of valid
\* objects are non-negative; a failed call returns a negative value.
H5P_DEFAULT == 0
H5T_NATIVE_FLOAT == 101
H5T_NATIVE_DOUBLE == 102
H5T_NATIVE_INT == 103
H5T_NATIVE_LONG == 104
H5T_NATIVE_LLONG == 105
H5T_NATIVE_UINT == 106
H5T_NATIVE_ULONG == 107
H5T_NATIVE_ULLONG == 108

\* ------------------------------------------------------------------- bounds
MaxOps == 4       \* member-function calls per run of the lifecycle model
MaxRank == 2      \* largest rank of a dataset in the dataset model

\* ------------------------------------------------------------- input domains
Kinds == {"float", "double", "int", "long", "llong", "uint", "ulong", "ullong"}
Filenames == {"F", "G"}
DatasetNames == {"/positions", "/ids"}
ParentNames == {"/", "/missing"} \cup DatasetNames
AttributeNames == {"time"}
AttributeValues == {15}
ExtentValues == {0, 3, CHUNK_SIZE, 20000}
FiletypeArgs == {-1, H5T_NATIVE_FLOAT, H5T_NATIVE_ULLONG}
DummyValues == {0, 1}

RECURSIVE ExtentsOfRank(_)
ExtentsOfRank(r) ==
  IF r = 0 THEN {<<>>}
  ELSE {Append(d, e) : d \in ExtentsOfRank(r - 1), e \in ExtentValues}

AllExtents == UNION {ExtentsOfRank(r) : r \in 1..MaxRank}
FewExtents == {<<0>>, <<3>>, <<3, 20000>>}
FewKinds == {"double", "int"}

\* The library calls whose result the header tests.
CheckedCalls == {"H5Fcreate", "H5Dcreate", "H5Dwrite", "H5Oopen", "H5Acreate", "H5Awrite"}

\* What the environment decides during one member-function call: which
\* library calls fail for external reasons (disk full, ...), whether
\* MPI_Abort returns to its caller, how the build resolves the mismatched
\* `delete chunks` of an array allocated with new[], and the indeterminate
\* value of the uninitialised `T dummy`.
Env(fails, mpi_returns, delete_ok, dummy) ==
  [fails |-> fails, mpi_returns |-> mpi_returns, delete_ok |-> delete_ok, dummy |-> dummy]

\* ---------------------------------------------------------------------- state
VARIABLES
  file_id,   \* H5OutputFile::file_id
  pc,        \* "live", "aborted" (io_error), "crashed" (delete mismatch), "destroyed"
  USEMPI,    \* build flag: compiled with -DUSEMPI
  calls,     \* library / runtime calls made by the last member function, in order
  open,      \* the library's table of open identifiers: id -> handle record
  disk,      \* the files on disk: filename -> contents
  nextId,    \* next identifier the library hands out
  fclosed,   \* file identifier -> number of H5Fclose invocations on it
  op,        \* the last member function called, with its arguments
  nops       \* number of member functions called so far

vars == <<file_id, pc, USEMPI, calls, open, disk, nextId, fclosed, op, nops>>

NoFile == [exists |-> FALSE, dsets |-> <<>>, attrs |-> {}]
EmptyFile == [exists |-> TRUE, dsets |-> <<>>, attrs |-> {}]

Handle(kind, file, obj, attr) ==
  [kind |-> kind, file |-> file, obj |-> obj, attr |-> attr,
   dims |-> <<>>, layout |-> "contiguous", chunk |-> <<>>, deflate |-> -1]

NoOp ==
  [name |-> "constructor", file |-> "", obj |-> "", attr |-> "", rank |-> 0,
   dims |-> <<>>, T |-> "", filetype_id |-> -1, value |-> 0, fid0 |-> -1]

\* The process state a member function starts from.
Cur(env) ==
  [file_id |-> file_id, pc |-> pc, USEMPI |-> USEMPI, calls |-> <<>>, open |-> open,
   disk |-> disk, nextId |-> nextId, fclosed |-> fclosed, env |-> env, ret |-> 0]

Commit(s, o) ==
  /\ file_id' = s.file_id
  /\ pc' = s.pc
  /\ USEMPI' = s.USEMPI
  /\ calls' = s.calls
  /\ open' = s.open
  /\ disk' = s.disk
  /\ nextId' = s.nextId
  /\ fclosed' = s.fclosed
  /\ op' = [o EXCEPT !.fid0 = file_id]
  /\ nops' = nops + 1

Dead(s) == s.pc # "live"

\* One entry of the call log: the function, the adapter's file_id when it
\* was invoked, a name and a type argument, and the value returned.  s.ret
\* holds the value the last library call returned to the member function.
Logged(s, fn, name, type, ret) ==
  [s EXCEPT !.calls = Append(@, [fn |-> fn, fid |-> s.file_id, name |-> name,
                                 type |-> type, ret |-> ret]),
            !.ret = IF fn \in {"cerr", "MPI_Abort", "abort", "delete"} THEN @ ELSE ret]

Without(f, id) == [i \in DOMAIN f \ {id} |-> f[i]]

IsOpen(s, id, kinds) == id \in DOMAIN s.open /\ s.open[id].kind \in kinds

\* ------------------------------------------------------- the HDF5 library
\* H5Fcreate(filename, H5F_ACC_TRUNC, ...): a new, empty file replaces any
\* file of that name; returns a fresh file identifier.
H5Fcreate(s, filename) ==
  IF Dead(s) THEN s
  ELSE IF "H5Fcreate" \in s.env.fails THEN Logged(s, "H5Fcreate", filename, 0, -1)
  ELSE LET id == s.nextId
           t == [s EXCEPT !.nextId = id + 1,
                          !.open = (id :> Handle("file", filename, "/", "")) @@ @,
                          !.disk[filename] = EmptyFile,
                          !.fclosed = (id :> 0) @@ @]
       IN Logged(t, "H5Fcreate", filename, 0, id)

H5Fclose(s, id) ==
  IF Dead(s) THEN s
  ELSE LET n == [s EXCEPT !.fclosed = IF id \in DOMAIN @ THEN [@ EXCEPT ![id] = @ + 1] ELSE @]
       IN IF IsOpen(s, id, {"file"})
          THEN Logged([n EXCEPT !.open = Without(@, id)], "H5Fclose", "", 0, 0)
          ELSE Logged(n, "H5Fclose", "", 0, -1)

\* Generic release of a non-file identifier (H5Sclose, H5Dclose, H5Pclose,
\* H5Aclose, H5Oclose).
H5close(s, fn, id, kinds) ==
  IF Dead(s) THEN s
  ELSE IF IsOpen(s, id, kinds)
       THEN Logged([s EXCEPT !.open = Without(@, id)], fn, "", 0, 0)
       ELSE Logged(s, fn, "", 0, -1)

\* ------------------------------------------------------------ io_error
MPI_Abort(s) ==
  IF Dead(s) THEN s
  ELSE LET t == Logged(s, "MPI_Abort", "", 0, 0)
       IN IF s.env.mpi_returns THEN t ELSE [t EXCEPT !.pc = "aborted"]

abort(s) == IF Dead(s) THEN s ELSE [Logged(s, "abort", "", 0, 0) EXCEPT !.pc = "aborted"]

\* A plausible slip: abort() ends up inside the #ifdef USEMPI block, so a
\* build without MPI returns from io_error.
io_error_abort_in_ifdef(s, message) ==
  IF Dead(s) THEN s
  ELSE LET s1 == Logged(s, "cerr", message, 0, 0)
       IN IF s1.USEMPI THEN abort(MPI_Abort(s1)) ELSE s1

io_error(s, message) ==
  IF Dead(s) THEN s
  ELSE LET s1 == Logged(s, "cerr", message, 0, 0)
           s2 == IF s1.USEMPI THEN MPI_Abort(s1) ELSE s1
       IN abort(s2)

\* ------------------------------------------------- constructor, create, close
set_file_id(s, v) == IF Dead(s) THEN s ELSE [s EXCEPT !.file_id = v]

\* A plausible slip: the already-open test is missing.
create_unguarded(s, filename) ==
  LET s2 == H5Fcreate(s, filename)
      s3 == set_file_id(s2, s2.ret)
  IN IF ~Dead(s3) /\ s3.file_id < 0
     THEN io_error(s3, "Failed to create output file: ") ELSE s3

create(s, filename) ==
  LET s1 == IF ~Dead(s) /\ s.file_id >= 0
            THEN io_error(s, "Attempted to create file when already open!") ELSE s
      s2 == H5Fcreate(s1, filename)
      s3 == set_file_id(s2, s2.ret)
  IN IF ~Dead(s3) /\ s3.file_id < 0
     THEN io_error(s3, "Failed to create output file: ") ELSE s3

\* A plausible slip: file_id is not reset after H5Fclose.
close_keeps_file_id(s) ==
  LET s1 == IF ~Dead(s) /\ s.file_id < 0
            THEN io_error(s, "Attempted to close file which is not open!") ELSE s
  IN H5Fclose(s1, s1.file_id)

close(s) ==
  LET s1 == IF ~Dead(s) /\ s.file_id < 0
            THEN io_error(s, "Attempted to close file which is not open!") ELSE s
      s2 == H5Fclose(s1, s1.file_id)
  IN set_file_id(s2, -1)

destructor(s) ==
  LET s1 == IF ~Dead(s) /\ s.file_id >= 0 THEN close(s) ELSE s
  IN IF Dead(s1) THEN s1 ELSE [s1 EXCEPT !.pc = "destroyed"]

\* ------------------------------------------- library: dataspaces, plists
H5Screate_simple(s, rank, dims) ==
  IF Dead(s) THEN s
  ELSE LET id == s.nextId
           h == [Handle("dataspace", "", "", "") EXCEPT !.dims = dims]
       IN Logged([s EXCEPT !.nextId = id + 1, !.open = (id :> h) @@ @],
                 "H5Screate_simple", "", 0, id)

H5Screate(s) ==
  IF Dead(s) THEN s
  ELSE LET id == s.nextId
       IN Logged([s EXCEPT !.nextId = id + 1,
                           !.open = (id :> Handle("dataspace", "", "", "")) @@ @],
                 "H5Screate", "", 0, id)

\* H5Pcreate(H5P_DATASET_CREATE): a property list with the library defaults
\* (contiguous layout, no filter).
H5Pcreate(s) ==
  IF Dead(s) THEN s
  ELSE LET id == s.nextId
       IN Logged([s EXCEPT !.nextId = id + 1,
                           !.open = (id :> Handle("plist", "", "", "")) @@ @],
                 "H5Pcreate", "", 0, id)

H5Pset_layout(s, prop_id, layout) ==
  IF Dead(s) THEN s
  ELSE IF IsOpen(s, prop_id, {"plist"})
       THEN Logged([s EXCEPT !.open[prop_id].layout = layout], "H5Pset_layout", layout, 0, 0)
       ELSE Logged(s, "H5Pset_layout", layout, 0, -1)

\* H5Pset_chunk rejects a chunk extent of zero.
H5Pset_chunk(s, prop_id, rank, chunks) ==
  IF Dead(s) THEN s
  ELSE IF IsOpen(s, prop_id, {"plist"}) /\ \A i \in 1..rank : chunks[i] > 0
       THEN Logged([s EXCEPT !.open[prop_id].layout = "chunked",
                             !.open[prop_id].chunk = chunks], "H5Pset_chunk", "", 0, 0)
       ELSE Logged(s, "H5Pset_chunk", "", 0, -1)

H5Pset_deflate(s, prop_id, level) ==
  IF Dead(s) THEN s
  ELSE IF IsOpen(s, prop_id, {"plist"})
       THEN Logged([s EXCEPT !.open[prop_id].deflate = level], "H5Pset_deflate", "", 0, 0)
       ELSE Logged(s, "H5Pset_deflate", "", 0, -1)

\* ------------------------------------------------------ library: datasets
\* The creation properties a dataset gets from the dcpl_id argument.
CreationProperties(s, dcpl_id) ==
  IF dcpl_id # H5P_DEFAULT /\ IsOpen(s, dcpl_id, {"plist"})
  THEN s.open[dcpl_id] ELSE Handle("plist", "", "", "")

ObjectExists(s, file, name) ==
  s.disk[file].exists /\ (name = "/" \/ name \in DOMAIN s.disk[file].dsets)

\* H5Dcreate(loc_id, name, dtype_id, space_id, lcpl_id, dcpl_id, dapl_id).
\* Fails on an invalid location, on a name already in use, on an invalid
\* dataspace, and whenever the environment says so.
H5Dcreate(s, loc_id, name, dtype_id, space_id, dcpl_id) ==
  IF Dead(s) THEN s
  ELSE IF \/ "H5Dcreate" \in s.env.fails
          \/ ~IsOpen(s, loc_id, {"file"})
          \/ ~IsOpen(s, space_id, {"dataspace"})
          \/ ObjectExists(s, s.open[loc_id].file, name)
       THEN Logged(s, "H5Dcreate", name, dtype_id, -1)
  ELSE LET id == s.nextId
           f == s.open[loc_id].file
           p == CreationProperties(s, dcpl_id)
           d == [dims |-> s.open[space_id].dims, filetype |-> dtype_id,
                 layout |-> p.layout, chunk |-> p.chunk, deflate |-> p.deflate,
                 written |-> FALSE, memtype |-> -1]
           t == [s EXCEPT !.nextId = id + 1,
                          !.open = (id :> Handle("dataset", f, name, "")) @@ @,
                          !.disk[f].dsets = (name :> d) @@ @]
       IN Logged(t, "H5Dcreate", name, dtype_id, id)

\* H5Dwrite(dset_id, mem_type_id, mem_space_id, H5S_ALL, H5P_DEFAULT, buf).
H5Dwrite(s, dset_id, mem_type_id, mem_space_id) ==
  IF Dead(s) THEN s
  ELSE IF \/ "H5Dwrite" \in s.env.fails
          \/ ~IsOpen(s, dset_id, {"dataset"})
          \/ ~IsOpen(s, mem_space_id, {"dataspace"})
       THEN Logged(s, "H5Dwrite", "", mem_type_id, -1)
  ELSE LET h == s.open[dset_id]
           t == [s EXCEPT !.disk[h.file].dsets[h.obj].written = TRUE,
                          !.disk[h.file].dsets[h.obj].memtype = mem_type_id]
       IN Logged(t, "H5Dwrite", h.obj, mem_type_id, 0)

\* ----------------------------------------------------------- hdf5_type
\* The eight overloads; the argument's value plays no part in the result.
hdf5_type(T, dummy) ==
  CASE T = "float" -> H5T_NATIVE_FLOAT
    [] T = "double" -> H5T_NATIVE_DOUBLE
    [] T = "int" -> H5T_NATIVE_INT
    [] T = "long" -> H5T_NATIVE_LONG
    [] T = "llong" -> H5T_NATIVE_LLONG
    [] T = "uint" -> H5T_NATIVE_UINT
    [] T = "ulong" -> H5T_NATIVE_ULONG
    [] T = "ullong" -> H5T_NATIVE_ULLONG

\* ------------------------------------------------------ write_dataset_nd
\* A plausible slip: the override is ignored.
storage_type_ignores_override(filetype_id, memtype_id) == memtype_id

\* if(filetype_id < 0)filetype_id = memtype_id;
storage_type(filetype_id, memtype_id) ==
  IF filetype_id < 0 THEN memtype_id ELSE filetype_id

\* A plausible slip: the zero test is missing.
nonzero_size_always(rank, dims) == 1

nonzero_size(rank, dims) == IF \E i \in 1..rank : dims[i] = 0 THEN 0 ELSE 1

large_dataset(rank, dims) == IF \E i \in 1..rank : dims[i] > CHUNK_SIZE THEN 1 ELSE 0

min(a, b) == IF b < a THEN b ELSE a

\* `delete chunks` on memory obtained with new[]: undefined behaviour.  A
\* build either releases the block or stops the process (a checking
\* allocator reports the mismatch).
delete_chunks(s) ==
  IF Dead(s) THEN s
  ELSE IF s.env.delete_ok THEN s ELSE [Logged(s, "delete", "", 0, -1) EXCEPT !.pc = "crashed"]

\* The body of if(nonzero_size && large_dataset).
set_chunking(s, prop_id, rank, dims) ==
  LET chunks == [i \in 1..rank |-> min(CHUNK_SIZE, dims[i])]
      s1 == H5Pset_layout(s, prop_id, "chunked")
      s2 == H5Pset_chunk(s1, prop_id, rank, chunks)
      s3 == H5Pset_deflate(s2, prop_id, DEFLATE)
  IN delete_chunks(s3)

\* A plausible slip: the property list is not closed.
clean_up_without_H5Pclose(s, dspace_id, dset_id, prop_id) ==
  LET s1 == H5close(s, "H5Sclose", dspace_id, {"dataspace"})
  IN H5close(s1, "H5Dclose", dset_id, {"dataset"})

clean_up(s, dspace_id, dset_id, prop_id) ==
  LET s1 == H5close(s, "H5Sclose", dspace_id, {"dataspace"})
      s2 == H5close(s1, "H5Dclose", dset_id, {"dataset"})
  IN H5close(s2, "H5Pclose", prop_id, {"plist"})

write_dataset_nd(s, name, rank, dims, T, filetype_arg) ==
  LET memtype_id == hdf5_type(T, s.env.dummy)
      filetype_id == storage_type(filetype_arg, memtype_id)
      s1 == H5Screate_simple(s, rank, dims)
      dspace_id == s1.ret
      s2 == H5Pcreate(s1)
      prop_id == s2.ret
      s3 == IF nonzero_size(rank, dims) # 0 /\ large_dataset(rank, dims) # 0
            THEN set_chunking(s2, prop_id, rank, dims) ELSE s2
      s4 == H5Dcreate(s3, s3.file_id, name, filetype_id, dspace_id, H5P_DEFAULT)
      dset_id == s4.ret
      s5 == IF ~Dead(s4) /\ dset_id < 0
            THEN io_error(s4, "Failed to create dataset: ") ELSE s4
      s6 == H5Dwrite(s5, dset_id, memtype_id, dspace_id)
      s7 == IF ~Dead(s6) /\ s6.ret < 0
            THEN io_error(s6, "Failed to write dataset: ") ELSE s6
  IN clean_up(s7, dspace_id, dset_id, prop_id)

write_dataset(s, name, len, T, filetype_arg) ==
  LET rank == 1
      dims == <<len>>
  IN write_dataset_nd(s, name, rank, dims, T, filetype_arg)

\* ---------------------------------------- library: objects and attributes
\* H5Oopen(loc_id, name, H5P_DEFAULT): opens an existing object of the file.
H5Oopen(s, loc_id, name) ==
  IF Dead(s) THEN s
  ELSE IF \/ "H5Oopen" \in s.env.fails
          \/ ~IsOpen(s, loc_id, {"file"})
          \/ ~ObjectExists(s, s.open[loc_id].file, name)
       THEN Logged(s, "H5Oopen", name, 0, -1)
  ELSE LET id == s.nextId
           h == Handle("object", s.open[loc_id].file, name, "")
       IN Logged([s EXCEPT !.nextId = id + 1, !.open = (id :> h) @@ @],
                 "H5Oopen", name, 0, id)

HasAttribute(file, obj, attr) == \E a \in file.attrs : a.obj = obj /\ a.name = attr

\* H5Acreate(loc_id, attr_name, type_id, space_id, acpl_id, aapl_id): the
\* attribute is attached to the object loc_id identifies; a file identifier
\* identifies the file's root group.  Fails on an invalid location, on a
\* name the object already carries, and whenever the environment says so.
H5Acreate(s, loc_id, attr_name, type_id, space_id) ==
  IF Dead(s) THEN s
  ELSE IF \/ "H5Acreate" \in s.env.fails
          \/ ~IsOpen(s, loc_id, {"file", "object", "dataset"})
          \/ ~IsOpen(s, space_id, {"dataspace"})
          \/ HasAttribute(s.disk[s.open[loc_id].file], s.open[loc_id].obj, attr_name)
       THEN Logged(s, "H5Acreate", attr_name, type_id, -1)
  ELSE LET id == s.nextId
           l == s.open[loc_id]
           a == [obj |-> l.obj, name |-> attr_name, type |-> type_id,
                 written |-> FALSE, value |-> 0]
           t == [s EXCEPT !.nextId = id + 1,
                          !.open = (id :> Handle("attribute", l.file, l.obj, attr_name)) @@ @,
                          !.disk[l.file].attrs = @ \cup {a}]
       IN Logged(t, "H5Acreate", attr_name, type_id, id)

H5Awrite(s, attr_id, mem_type_id, value) ==
  IF Dead(s) THEN s
  ELSE IF "H5Awrite" \in s.env.fails \/ ~IsOpen(s, attr_id, {"attribute"})
       THEN Logged(s, "H5Awrite", "", mem_type_id, -1)
  ELSE LET h == s.open[attr_id]
           new == {IF a.obj = h.obj /\ a.name = h.attr
                   THEN [a EXCEPT !.written = TRUE, !.value = value] ELSE a
                   : a \in s.disk[h.file].attrs}
       IN Logged([s EXCEPT !.disk[h.file].attrs = new], "H5Awrite", h.attr, mem_type_id, 0)

\* ------------------------------------------------------- write_attribute
\* The source declares `hid_t parent` inside a function whose string
\* parameter is also called `parent`.  The model keeps the two apart the
\* way the statements use them: parent_name is the string handed to
\* H5Oopen, parent is the identifier H5Oopen returns.

\* A plausible slip: the result of H5Oopen is not tested.
open_parent_unchecked(s, parent_name) == H5Oopen(s, s.file_id, parent_name)

\* Lines 139-140: open the parent object, fatal if that fails.
open_parent(s, parent_name) ==
  LET s1 == H5Oopen(s, s.file_id, parent_name)
  IN IF ~Dead(s1) /\ s1.ret < 0
     THEN io_error(s1, "Unable to open object to write attribute: ") ELSE s1

write_attribute(s, parent_name, name, T, data) ==
  LET dtype_id == hdf5_type(T, data)
      s2 == open_parent(s, parent_name)
      parent == s2.ret
      s3 == H5Screate(s2)
      dspace_id == s3.ret
      s4 == H5Acreate(s3, s3.file_id, name, dtype_id, dspace_id)
      attr_id == s4.ret
      s5 == IF ~Dead(s4) /\ attr_id < 0
            THEN io_error(s4, "Unable to create attribute ") ELSE s4
      s6 == H5Awrite(s5, attr_id, dtype_id, data)
      s7 == IF ~Dead(s6) /\ s6.ret < 0
            THEN io_error(s6, "Unable to write attribute ") ELSE s6
      s8 == H5close(s7, "H5Aclose", attr_id, {"attribute"})
      s9 == H5close(s8, "H5Sclose", dspace_id, {"dataspace"})
  IN H5close(s9, "H5Oclose", parent, {"object"})

\* --------------------------------------------------------------- actions
Running == pc = "live" /\ nops < MaxOps

Init ==
  /\ file_id = -1
  /\ pc = "live"
  /\ USEMPI \in BOOLEAN
  /\ calls = <<>>
  /\ open = <<>>
  /\ disk = [f \in Filenames |-> NoFile]
  /\ nextId = 1
  /\ fclosed = <<>>
  /\ op = NoOp
  /\ nops = 0

Create ==
  /\ Running
  /\ \E filename \in Filenames, fails \in SUBSET {"H5Fcreate"}, m \in BOOLEAN :
       Commit(create(Cur(Env(fails, m, TRUE, 0)), filename),
              [NoOp EXCEPT !.name = "create", !.file = filename])

Close ==
  /\ Running
  /\ \E m \in BOOLEAN :
       Commit(close(Cur(Env({}, m, TRUE, 0))), [NoOp EXCEPT !.name = "close"])

Destroy ==
  /\ Running
  /\ \E m \in BOOLEAN :
       Commit(destructor(Cur(Env({}, m, TRUE, 0))), [NoOp EXCEPT !.name = "destructor"])

WriteEnvs ==
  {Env(fails, m, d, u) : fails \in SUBSET {"H5Dcreate", "H5Dwrite"},
                         m \in BOOLEAN, d \in BOOLEAN, u \in DummyValues}

WriteDatasetNdOver(names, extents, kinds, filetypes) ==
  \E name \in names, dims \in extents, T \in kinds, ft \in filetypes, env \in WriteEnvs :
    Commit(write_dataset_nd(Cur(env), name, Len(dims), dims, T, ft),
           [NoOp EXCEPT !.name = "write_dataset_nd", !.obj = name, !.rank = Len(dims),
                        !.dims = dims, !.T = T, !.filetype_id = ft])

WriteDatasetOver(names, extents, kinds, filetypes) ==
  \E name \in names, len \in extents, T \in kinds, ft \in filetypes, env \in WriteEnvs :
    Commit(write_dataset(Cur(env), name, len, T, ft),
           [NoOp EXCEPT !.name = "write_dataset", !.obj = name, !.rank = 1,
                        !.dims = <<len>>, !.T = T, !.filetype_id = ft])

WriteDatasetNd == Running /\ WriteDatasetNdOver(DatasetNames, FewExtents, FewKinds, {-1})

WriteDataset == Running /\ WriteDatasetOver(DatasetNames, {0, 3}, FewKinds, {-1})

WriteAttribute ==
  /\ Running
  /\ \E parent_name \in ParentNames, name \in AttributeNames, T \in FewKinds,
        data \in AttributeValues, m \in BOOLEAN,
        fails \in {{}, {"H5Oopen"}, {"H5Acreate"}, {"H5Awrite"}} :
       Commit(write_attribute(Cur(Env(fails, m, TRUE, 0)), parent_name, name, T, data),
              [NoOp EXCEPT !.name = "write_attribute", !.obj = parent_name,
                           !.attr = name, !.T = T, !.value = data])

Next == Create \/ Close \/ Destroy \/ WriteDatasetNd \/ WriteDataset \/ WriteAttribute

Spec == Init /\ [][Next]_vars

\* The dataset model: one dataset write per run, over the whole input
\* domain, to a newly created file or with no file open at all.
NoDatasetYet == \A f \in Filenames : DOMAIN disk[f].dsets = {}

CreateNd ==
  /\ pc = "live"
  /\ \E fails \in SUBSET {"H5Fcreate"}, m \in BOOLEAN :
       Commit(create(Cur(Env(fails, m, TRUE, 0)), "F"),
              [NoOp EXCEPT !.name = "create", !.file = "F"])

WriteDatasetNdAll ==
  /\ pc = "live"
  /\ NoDatasetYet
  /\ WriteDatasetNdOver(DatasetNames, AllExtents, Kinds, FiletypeArgs)

WriteDatasetAll ==
  /\ pc = "live"
  /\ NoDatasetYet
  /\ WriteDatasetOver(DatasetNames, ExtentValues, Kinds, FiletypeArgs)

NextNd == CreateNd \/ WriteDatasetNdAll \/ WriteDatasetAll

SpecNd == Init /\ [][NextNd]_vars

\* ================================================================= claims
WriteOps == {"write_dataset", "write_dataset_nd", "write_attribute"}

Called(fn) == {i \in DOMAIN calls : calls[i].fn = fn}

Succeeded(fn) == {i \in Called(fn) : calls[i].ret >= 0}

Transient == {id \in DOMAIN open : open[id].kind # "file"}

OpenFiles == {id \in DOMAIN open : open[id].kind = "file"}

\* The dataset the last call created, in the file the adapter had open.
CreatedDataset == disk[open[op.fid0].file].dsets[op.obj]

DatasetCreated == op.fid0 \in OpenFiles /\ Succeeded("H5Dcreate") # {}

ShouldChunk(dims) ==
  /\ \A i \in DOMAIN dims : dims[i] # 0
  /\ \E i \in DOMAIN dims : dims[i] > 8192

\* C1: the dataset write_dataset_nd creates is chunked exactly when every
\* extent is nonzero and some extent exceeds 8192; a chunked dataset has
\* chunk extents min(8192, extents[i]) and deflate level 6.
C1_ChunkedIffLargeNonzero ==
  (op.name = "write_dataset_nd" /\ DatasetCreated) =>
    LET d == CreatedDataset
    IN /\ (d.layout = "chunked") <=> ShouldChunk(op.dims)
       /\ d.layout = "chunked" =>
            /\ d.chunk = [i \in 1..op.rank |-> IF op.dims[i] < 8192 THEN op.dims[i] ELSE 8192]
            /\ d.deflate = 6

\* C5: a write_dataset_nd call with some extent equal to zero never asks
\* for chunked storage: no property list is switched to the chunked layout
\* and the dataset it creates is not chunked.
C5_ZeroExtentNeverChunked ==
  (op.name = "write_dataset_nd" /\ \E i \in DOMAIN op.dims : op.dims[i] = 0) =>
    /\ Called("H5Pset_layout") = {}
    /\ \A id \in DOMAIN open : open[id].layout # "chunked"
    /\ DatasetCreated => CreatedDataset.layout # "chunked"

C5_Witness ==
  /\ op.name = "write_dataset_nd"
  /\ op.dims = <<0, 20000>>
  /\ pc = "live"
  /\ DatasetCreated
  /\ CreatedDataset.written

NativeTypeOf ==
  [float |-> H5T_NATIVE_FLOAT, double |-> H5T_NATIVE_DOUBLE, int |-> H5T_NATIVE_INT,
   long |-> H5T_NATIVE_LONG, llong |-> H5T_NATIVE_LLONG, uint |-> H5T_NATIVE_UINT,
   ulong |-> H5T_NATIVE_ULONG, ullong |-> H5T_NATIVE_ULLONG]

\* C8: the type a dataset is created with is the storage_type argument when
\* one is given and T's native type otherwise; the type that describes the
\* buffer in the write is always T's native type.
C8_StorageAndMemoryType ==
  op.name \in {"write_dataset", "write_dataset_nd"} =>
    LET native == NativeTypeOf[op.T]
        storage == IF op.filetype_id >= 0 THEN op.filetype_id ELSE native
    IN /\ \A i \in Called("H5Dcreate") : calls[i].type = storage
       /\ \A i \in Called("H5Dwrite") : calls[i].type = native
       /\ DatasetCreated => CreatedDataset.filetype = storage
       /\ (DatasetCreated /\ CreatedDataset.written) => CreatedDataset.memtype = native

C8_Witness ==
  /\ op.name = "write_dataset_nd"
  /\ op.T = "double"
  /\ op.filetype_id = H5T_NATIVE_FLOAT
  /\ pc = "live"
  /\ DatasetCreated
  /\ CreatedDataset.written
  /\ CreatedDataset.filetype = H5T_NATIVE_FLOAT
  /\ CreatedDataset.memtype = H5T_NATIVE_DOUBLE

\* C9 as stated: whenever write_dataset_nd finishes or terminates the
\* process through io_error, none of its transient handles is still open.
C9_ReleasedOnEveryOutcome ==
  (op.name = "write_dataset_nd" /\ pc \in {"live", "aborted"}) => Transient = {}

\* C9 amended: when write_dataset_nd returns, every transient handle it
\* created has been released; when dataset creation or the write fails,
\* io_error ends the process with the dataspace and the property list
\* (and, after a failed write, the dataset) still open.
C9_ReleasedOnReturn ==
  op.name = "write_dataset_nd" =>
    /\ pc = "live" => Transient = {}
    /\ pc = "aborted" =>
         /\ {"dataspace", "plist"} \subseteq {open[id].kind : id \in Transient}
         /\ Succeeded("H5Dcreate") # {} => "dataset" \in {open[id].kind : id \in Transient}

C9_Witness ==
  /\ op.name = "write_dataset_nd"
  /\ pc = "live"
  /\ Called("H5Sclose") # {} /\ Called("H5Dclose") # {} /\ Called("H5Pclose") # {}
  /\ Called("H5Pset_chunk") # {}

\* C3: create() on a held handle and close() on no handle are fatal before
\* the library is asked; the adapter holds at most one file handle,
\* H5Fcreate is only invoked with no handle held and H5Fclose only with a
\* handle held.
C3_CreateCloseGuarded ==
  /\ Cardinality(OpenFiles) <= 1
  /\ OpenFiles = IF file_id >= 0 THEN {file_id} ELSE {}
  /\ \A i \in Called("H5Fcreate") : calls[i].fid < 0
  /\ \A i \in Called("H5Fclose") : calls[i].fid >= 0
  /\ (op.name = "create" /\ op.fid0 >= 0) => (pc = "aborted" /\ Called("H5Fcreate") = {})
  /\ (op.name = "close" /\ op.fid0 < 0) => (pc = "aborted" /\ Called("H5Fclose") = {})

C3_Witness == op.name = "create" /\ op.fid0 >= 0 /\ pc = "aborted" /\ file_id = op.fid0

\* C4: no file handle is closed twice; once the adapter is destroyed every
\* handle a create() obtained has been closed exactly once; the destructor
\* closes a held handle and does nothing when none is held.
C4_ReleasedExactlyOnce ==
  /\ \A id \in DOMAIN fclosed : fclosed[id] <= 1
  /\ pc = "destroyed" => (OpenFiles = {} /\ \A id \in DOMAIN fclosed : fclosed[id] = 1)
  /\ (op.name = "destructor" /\ op.fid0 >= 0) =>
       /\ pc = "destroyed"
       /\ Cardinality(Called("H5Fclose")) = 1
       /\ fclosed[op.fid0] = 1
  /\ (op.name = "destructor" /\ op.fid0 < 0) => (pc = "destroyed" /\ calls = <<>>)

C4_Witness ==
  /\ pc = "destroyed"
  /\ op.fid0 >= 0
  /\ Cardinality(DOMAIN fclosed) = 2

ParentExists ==
  /\ op.fid0 \in OpenFiles
  /\ LET f == disk[open[op.fid0].file]
     IN op.obj = "/" \/ op.obj \in DOMAIN f.dsets

\* C6: write_attribute on an open file with a parent name that names no
\* object is fatal, and neither H5Acreate nor H5Awrite is reached.
C6_MissingParentFatal ==
  (op.name = "write_attribute" /\ op.fid0 \in OpenFiles /\ ~ParentExists) =>
    /\ pc = "aborted"
    /\ Called("H5Acreate") = {}
    /\ Called("H5Awrite") = {}

C6_Witness ==
  /\ op.name = "write_attribute"
  /\ op.fid0 \in OpenFiles
  /\ op.obj = "/missing"
  /\ pc = "aborted"
  /\ Called("H5Oopen") # {}

FailureDetected ==
  \/ \E i \in DOMAIN calls : calls[i].fn \in CheckedCalls /\ calls[i].ret < 0
  \/ op.name = "create" /\ op.fid0 >= 0
  \/ op.name = "close" /\ op.fid0 < 0

Functions(seq) == [i \in DOMAIN seq |-> seq[i].fn]

\* C7: a detected failure is followed by the message, then MPI_Abort in an
\* MPI build, then the end of the process; nothing of the failing operation
\* runs after that and no further operation can start.
C7_FatalOrder ==
  /\ FailureDetected =>
       /\ pc = "aborted"
       /\ \E k \in DOMAIN calls :
            /\ calls[k].fn = "cerr"
            /\ \A j \in 1..(k - 1) : calls[j].fn # "cerr"
            /\ \A j \in 1..(k - 1) :
                 (calls[j].fn \in CheckedCalls /\ calls[j].ret < 0) => j = k - 1
            /\ Functions(SubSeq(calls, k + 1, Len(calls))) \in
                 IF USEMPI THEN {<<"MPI_Abort">>, <<"MPI_Abort", "abort">>}
                 ELSE {<<"abort">>}
  /\ pc = "aborted" => ~ENABLED Next

C7_Witness ==
  /\ pc = "aborted"
  /\ USEMPI
  /\ \E i \in Called("H5Dwrite") : calls[i].ret < 0
  /\ Functions(SubSeq(calls, Len(calls) - 2, Len(calls))) = <<"cerr", "MPI_Abort", "abort">>

C2_AttributeOnParent ==
  [][(op'.name = "write_attribute" /\ pc' = "live") =>
       LET f == open[file_id].file
       IN /\ \E a \in disk'[f].attrs :
               a.obj = op'.obj /\ a.name = op'.attr /\ a.written /\ a.value = op'.value
          /\ \A a \in disk'[f].attrs : a.obj # op'.obj => a \in disk[f].attrs]_vars
====
